---- MODULE Spec2Model ----
(***************************************************************************)
(* PASCAL VOC detection evaluation (chainercv/evaluations/                 *)
(* eval_detection_voc.py): eval_detection_voc, _pred_and_rec_cls, _voc_ap. *)
(* One call of eval_detection_voc is one behaviour: Init draws the         *)
(* arguments, the actions are the stages of the call in program order.     *)
(*                                                                         *)
(* numpy float64 arithmetic is modelled bit-exactly (round to nearest,     *)
(* ties to even) on the values the function computes: recall, precision,   *)
(* IoU, AP and mAP are binary64 values, not rationals.                     *)
(***************************************************************************)
EXTENDS Integers, Sequences, FiniteSets, TLC

VARIABLES
    bboxes, labels, scores, gt_bboxes, gt_labels, gt_difficults,
    use_07_metric,
    pc, raised, valid_label,
    bboxes_list, scores_list, gt_bboxes_list, gt_difficults_list,
    cls, npos, selec, index, conf, bbox, si, d, tp, fp, rec, prec,
    results, map

inputs == <<bboxes, labels, scores, gt_bboxes, gt_labels, gt_difficults,
            use_07_metric>>
lists == <<bboxes_list, scores_list, gt_bboxes_list, gt_difficults_list>>
scan == <<npos, selec, index, conf, bbox, si, d, tp, fp>>
vars == <<inputs, pc, raised, valid_label, lists, cls, scan, rec, prec,
          results, map>>

(***************************************************************************)
(* binary64 arithmetic                                                     *)
(***************************************************************************)
(* Natural numbers of arbitrary size: big-endian sequences of limbs in base *)
(* 2^15, without leading zero limbs; <<>> is zero.                          *)
Base == 2^15

RECURSIVE StripZeros(_)
StripZeros(L) ==
    IF L = <<>> THEN <<>>
    ELSE IF Head(L) = 0 THEN StripZeros(Tail(L)) ELSE L

BigOfNat(n) ==
    IF n = 0 THEN <<>>
    ELSE IF n < Base THEN <<n>>
    ELSE <<n \div Base, n % Base>>

Pad(L, n) == [i \in 1..n |-> IF i <= n - Len(L) THEN 0 ELSE L[i - (n - Len(L))]]

Zeros(n) == [i \in 1..n |-> 0]

BigMaxLen(A, B) == IF Len(A) >= Len(B) THEN Len(A) ELSE Len(B)

RECURSIVE BigAddRec(_, _, _, _)
BigAddRec(A, B, i, c) ==
    IF i = 0 THEN (IF c = 0 THEN <<>> ELSE <<c>>)
    ELSE LET s == A[i] + B[i] + c
         IN  Append(BigAddRec(A, B, i - 1, s \div Base), s % Base)

BigAdd(A, B) ==
    LET n == BigMaxLen(A, B) IN BigAddRec(Pad(A, n), Pad(B, n), n, 0)

RECURSIVE BigSubRec(_, _, _, _)
BigSubRec(A, B, i, c) ==
    IF i = 0 THEN <<>>
    ELSE LET s == A[i] - B[i] - c
         IN  IF s < 0 THEN Append(BigSubRec(A, B, i - 1, 1), s + Base)
             ELSE Append(BigSubRec(A, B, i - 1, 0), s)

\* A - B for A >= B
BigSub(A, B) ==
    LET n == BigMaxLen(A, B) IN StripZeros(BigSubRec(Pad(A, n), Pad(B, n), n, 0))

RECURSIVE BigCmpRec(_, _, _)
BigCmpRec(A, B, i) ==
    IF i > Len(A) THEN 0
    ELSE IF A[i] < B[i] THEN -1
    ELSE IF A[i] > B[i] THEN 1
    ELSE BigCmpRec(A, B, i + 1)

\* -1, 0, 1 as A <, =, > B
BigCmp(A, B) ==
    IF Len(A) < Len(B) THEN -1
    ELSE IF Len(A) > Len(B) THEN 1
    ELSE BigCmpRec(A, B, 1)

RECURSIVE BigMulSmallRec(_, _, _, _)
BigMulSmallRec(A, k, i, c) ==
    IF i = 0 THEN (IF c = 0 THEN <<>> ELSE <<c>>)
    ELSE LET s == A[i] * k + c
         IN  Append(BigMulSmallRec(A, k, i - 1, s \div Base), s % Base)

\* A * k for 0 <= k <= Base
BigMulSmall(A, k) == IF k = 0 THEN <<>> ELSE BigMulSmallRec(A, k, Len(A), 0)

RECURSIVE BigDivSmallRec(_, _, _, _)
BigDivSmallRec(A, dv, i, r) ==
    IF i > Len(A) THEN [q |-> <<>>, r |-> r]
    ELSE LET cur  == r * Base + A[i]
             rest == BigDivSmallRec(A, dv, i + 1, cur % dv)
         IN  [q |-> <<cur \div dv>> \o rest.q, r |-> rest.r]

\* quotient and remainder of A by dv, 0 < dv <= Base
BigDivSmall(A, dv) ==
    LET x == BigDivSmallRec(A, dv, 1, 0) IN [q |-> StripZeros(x.q), r |-> x.r]

RECURSIVE BigMulRec(_, _, _)
BigMulRec(A, B, j) ==
    IF j = 0 THEN <<>>
    ELSE LET acc == BigMulRec(A, B, j - 1)
             sh  == IF acc = <<>> THEN <<>> ELSE Append(acc, 0)
         IN  BigAdd(sh, BigMulSmall(A, B[j]))

BigMul(A, B) == BigMulRec(A, B, Len(B))

\* A * 2^n
BigShl(A, n) ==
    IF A = <<>> THEN <<>>
    ELSE BigMulSmall(A, 2^(n % 15)) \o Zeros(n \div 15)

\* floor(A / 2^n), and whether a nonzero remainder was dropped
BigShr(A, n) ==
    LET k    == n \div 15
        keep == IF k >= Len(A) THEN <<>> ELSE SubSeq(A, 1, Len(A) - k)
        drop == IF k >= Len(A) THEN A ELSE SubSeq(A, Len(A) - k + 1, Len(A))
        dv    == BigDivSmall(keep, 2^(n % 15))
    IN  [q |-> dv.q, sticky |-> (dv.r # 0) \/ (\E i \in 1..Len(drop) : drop[i] # 0)]

BitLen15(x) == CHOOSE k \in 1..15 : 2^(k - 1) <= x /\ x < 2^k

BigBitLen(A) == IF A = <<>> THEN 0 ELSE 15 * (Len(A) - 1) + BitLen15(A[1])

BigOdd(A) == A # <<>> /\ A[Len(A)] % 2 = 1

(* A non-negative binary64 value m * 2^e: m is zero (<<>>, with e = 0) or has *)
(* exactly 53 bits, so equal values have equal representations.              *)
FZero == [m |-> <<>>, e |-> 0]

\* the binary64 nearest to (A + sticky residue) * 2^e, ties to even
FRound(A, sticky, e) ==
    LET h == BigBitLen(A)
    IN  IF A = <<>> THEN FZero
        ELSE IF h <= 53 THEN [m |-> BigShl(A, 53 - h), e |-> e - (53 - h)]
        ELSE LET t  == h - 53
                 s1 == BigShr(A, t - 1)
                 q  == BigShr(s1.q, 1).q
                 st == sticky \/ s1.sticky
                 up == BigOdd(s1.q) /\ (st \/ BigOdd(q))
                 q2 == IF up THEN BigAdd(q, <<1>>) ELSE q
             IN  IF BigBitLen(q2) = 54
                 THEN [m |-> BigShr(q2, 1).q, e |-> e + t + 1]
                 ELSE [m |-> q2, e |-> e + t]

\* a / b in binary64 for integers a >= 0, 0 < b <= Base (both exact as floats)
FromDiv(a, b) ==
    LET dv == BigDivSmall(BigShl(BigOfNat(a), 90), b)
    IN  FRound(dv.q, dv.r # 0, -90)

FromNat(a) == FRound(BigOfNat(a), FALSE, 0)

FOne == FromNat(1)

\* x / dv in binary64, dv a small positive integer
FDivSmall(x, dv) ==
    LET q == BigDivSmall(BigShl(x.m, 30), dv)
    IN  FRound(q.q, q.r # 0, x.e - 30)

FMin(a, b) == IF a <= b THEN a ELSE b

FAdd(x, y) ==
    IF x.m = <<>> THEN y
    ELSE IF y.m = <<>> THEN x
    ELSE LET e == FMin(x.e, y.e)
         IN  FRound(BigAdd(BigShl(x.m, x.e - e), BigShl(y.m, y.e - e)), FALSE, e)

\* -1, 0, 1 as x <, =, > y
FCmp(x, y) ==
    IF x.m = <<>> THEN (IF y.m = <<>> THEN 0 ELSE -1)
    ELSE IF y.m = <<>> THEN 1
    ELSE IF x.e < y.e THEN -1
    ELSE IF x.e > y.e THEN 1
    ELSE BigCmp(x.m, y.m)

FLeq(x, y) == FCmp(x, y) <= 0

FMax(x, y) == IF FLeq(x, y) THEN y ELSE x

\* x - y in binary64 for x >= y
FSub(x, y) ==
    IF y.m = <<>> THEN x
    ELSE LET e == FMin(x.e, y.e)
         IN  FRound(BigSub(BigShl(x.m, x.e - e), BigShl(y.m, y.e - e)), FALSE, e)

FMul(x, y) ==
    IF x.m = <<>> \/ y.m = <<>> THEN FZero
    ELSE FRound(BigMul(x.m, y.m), FALSE, x.e + y.e)

\* x * k in binary64 for a small natural k
FMulSmall(x, k) ==
    IF x.m = <<>> \/ k = 0 THEN FZero
    ELSE FRound(BigMulSmall(x.m, k), FALSE, x.e)

(***************************************************************************)
(* Bounds of the model and the argument domains                            *)
(***************************************************************************)
\* images in a corpus
MaxImg == 2
\* predicted boxes in a corpus, over all images
MaxDet == 2
\* ground-truth boxes in a corpus, over all images
MaxGt == 2

\* (x_min, y_min, x_max, y_max); IoU(BoxA, BoxHalf) is 50/100, exactly the
\* default min_iou; BoxFar meets neither of the other two.
BoxA == <<0, 0, 9, 9>>
BoxHalf == <<0, 0, 9, 4>>
BoxFar == <<20, 20, 29, 29>>
DetBoxes == {BoxA, BoxHalf, BoxFar}
GtBoxes == {BoxA, BoxHalf}
\* confidence scores: the evaluation reads only their order (argsort)
Scores == {1, 2}
Labels == {0, 1}

RECURSIVE SumSeq(_)
SumSeq(s) == IF s = <<>> THEN 0 ELSE Head(s) + SumSeq(Tail(s))

Counts(N, max) == {c \in [1..N -> 0..max] : SumSeq(c) <= max}

Offset(cnt, n) == SumSeq(SubSeq(cnt, 1, n - 1))

\* the flat array cut into one array per image, cnt[n] entries for image n
Chunks(flat, cnt) ==
    [n \in 1..Len(cnt) |->
        SubSeq(flat, Offset(cnt, n) + 1, Offset(cnt, n) + cnt[n])]

NoDifficults == [given |-> FALSE, v |-> <<>>]

(***************************************************************************)
(* Pure helpers of the evaluation                                          *)
(***************************************************************************)
IMin(a, b) == IF a <= b THEN a ELSE b
IMax(a, b) == IF a >= b THEN a ELSE b

\* np.concatenate of a list of 1-d arrays
RECURSIVE Concatenate(_)
Concatenate(arrs) ==
    IF arrs = <<>> THEN <<>> ELSE Head(arrs) \o Concatenate(Tail(arrs))

\* the labels of a list of label arrays, as np.unique sees them
LabelSet(arrs) == {Concatenate(arrs)[i] : i \in 1..Len(Concatenate(arrs))}

SetMin(S) == CHOOSE x \in S : \A y \in S : x <= y

\* a set of integers as an ascending array (np.unique, np.union1d)
RECURSIVE SortedSeq(_)
SortedSeq(S) ==
    IF S = {} THEN <<>> ELSE <<SetMin(S)>> \o SortedSeq(S \ {SetMin(S)})

\* the label set taken from the ground truth alone
Union1dOfGroundTruth(labs, gt_labs) == SortedSeq(LabelSet(gt_labs))

\* valid_label; astype(np.int32) leaves the small labels of the model as
\* they are
Union1d(labs, gt_labs) == SortedSeq(LabelSet(labs) \cup LabelSet(gt_labs))

\* the entries arr[r] with labs[r] = l, in order (the loops over r)
PickLabel(arr, labs, l) ==
    LET rs == SelectSeq([r \in 1..Len(arr) |-> r], LAMBDA r : labs[r] = l)
    IN  [k \in 1..Len(rs) |-> arr[rs[k]]]

\* the per-image arrays of one label: Dict[l, List[array]]
OrganizeByLabel(arrs, labs, vl) ==
    [l \in {vl[i] : i \in 1..Len(vl)} |->
        [n \in 1..Len(arrs) |-> PickLabel(arrs[n], labs[n], l)]]

\* gt_difficults[n], or all False when gt_difficults is None
DifficultsOf(gd, gt_bb, n) ==
    IF gd.given THEN gd.v[n] ELSE [r \in 1..Len(gt_bb[n]) |-> FALSE]

BoxArea(b) == (b[3] - b[1] + 1) * (b[4] - b[2] + 1)

Clamp0(x) == IMax(x, 0)

InterArea(g, bb) ==
    Clamp0(IMin(g[3], bb[3]) - IMax(g[1], bb[1]) + 1)
        * Clamp0(IMin(g[4], bb[4]) - IMax(g[2], bb[2]) + 1)

\* area / (bbox_area[d] + gt_bb_area - area), one ground-truth box
Iou(g, bb) ==
    FromDiv(InterArea(g, bb), BoxArea(bb) + BoxArea(g) - InterArea(g, bb))

\* Iou over the boxes of the model, evaluated once
IouTable == [g \in GtBoxes, bb \in DetBoxes |-> Iou(g, bb)]

IouSeq(gt_bb, bb) == [j \in 1..Len(gt_bb) |-> IouTable[gt_bb[j], bb]]

\* np.max of a non-empty float array
RECURSIVE NpMax(_)
NpMax(a) == IF Len(a) = 1 THEN a[1] ELSE FMax(a[1], NpMax(Tail(a)))

\* np.argmax: the first index of the maximum
NpArgmax(a) ==
    LET m == NpMax(a)
    IN  CHOOSE j \in 1..Len(a) : a[j] = m /\ \A k \in 1..(j - 1) : a[k] # m

min_iou == FromDiv(1, 2)

\* the test with >= in place of >
AtLeastMinIou(gt_bb, bb, thr) ==
    Len(gt_bb) > 0 /\ FCmp(NpMax(IouSeq(gt_bb, bb)), thr) >= 0

\* ioumax > min_iou, with ioumax = -inf when the image has no box of the class
AboveMinIou(gt_bb, bb, thr) ==
    Len(gt_bb) > 0 /\ FCmp(NpMax(IouSeq(gt_bb, bb)), thr) > 0

JMax(gt_bb, bb) == NpArgmax(IouSeq(gt_bb, bb))

\* the orders np.argsort(key) may return: its default sort is not stable,
\* so equal keys come out in an order the caller cannot rely on
Argsort(key) ==
    {p \in [1..Len(key) -> 1..Len(key)] :
        /\ \A i, j \in 1..Len(key) : i # j => p[i] # p[j]
        /\ \A i, j \in 1..Len(key) : i < j => key[p[i]] <= key[p[j]]}

Take(a, p) == [i \in 1..Len(p) |-> a[p[i]]]

RECURSIVE Cumsum(_)
Cumsum(a) ==
    IF a = <<>> THEN <<>>
    ELSE LET c == Cumsum(SubSeq(a, 1, Len(a) - 1))
         IN  Append(c, (IF c = <<>> THEN 0 ELSE c[Len(c)]) + a[Len(a)])

RECURSIVE FSum(_)
\* np.sum / np.add.reduce of a float array of fewer than 8 entries: left to right
FSum(a) ==
    IF a = <<>> THEN FZero ELSE FAdd(FSum(SubSeq(a, 1, Len(a) - 1)), a[Len(a)])

\* the most boxes of one kind in a corpus of the model
MaxCount == IMax(IMax(MaxDet, MaxGt), MaxImg)

\* a / b in binary64 over the counts of the model, evaluated once
Quotient == [a \in 0..MaxCount, b \in 1..MaxCount |-> FromDiv(a, b)]

\* rec = tp / float(npos)
RecOf(tpc, n) == [i \in 1..Len(tpc) |-> Quotient[tpc[i], n]]

\* prec = tp / np.maximum(fp + tp, eps): where fp + tp is 0, tp is 0 and the
\* quotient 0 / eps is 0; elsewhere fp + tp >= 1 > eps
PrecOf(tpc, fpc) ==
    [i \in 1..Len(tpc) |->
        IF fpc[i] + tpc[i] = 0 THEN FZero
        ELSE Quotient[tpc[i], fpc[i] + tpc[i]]]

\* the literal 0.1
FTenth == FromDiv(1, 10)

\* np.arange(0., 1.1, 0.1): 11 values, computed as start + k * step
Arange == [k \in 0..10 |-> FMulSmall(FTenth, k)]

\* p / 11. over the precision values of the model, evaluated once
Eleventh ==
    [p \in {Quotient[a, b] : a \in 0..MaxCount, b \in 1..MaxCount} |->
        FDivSmall(p, 11)]

\* np.max(prec[rec >= t]), or 0 when np.sum(rec >= t) == 0
MaxPrecAt(r, p, t) ==
    LET sel == SelectSeq([i \in 1..Len(r) |-> i], LAMBDA i : FLeq(t, r[i]))
    IN  IF sel = <<>> THEN FZero ELSE NpMax([k \in 1..Len(sel) |-> p[sel[k]]])

\* the 11 point metric: ap = ap + p / 11. for t = 0.0, 0.1, ..., 1.0
RECURSIVE Ap11Point(_, _, _, _)
Ap11Point(r, p, k, ap) ==
    IF k > 10 THEN ap
    ELSE Ap11Point(r, p, k + 1, FAdd(ap, Eleventh[MaxPrecAt(r, p, Arange[k])]))

\* mpre[i - 1] = np.maximum(mpre[i - 1], mpre[i]) for i = size - 1 down to 1
RECURSIVE Envelope(_)
Envelope(a) ==
    IF Len(a) <= 1 THEN a
    ELSE LET t == Envelope(Tail(a)) IN <<FMax(a[1], t[1])>> \o t

\* the envelope with 1 as the closing sentinel of mpre
ApExactClosedByOne(r, p) ==
    LET mrec == <<FZero>> \o r \o <<FOne>>
        mpre == Envelope(<<FZero>> \o p \o <<FOne>>)
        i    == SelectSeq([k \in 1..(Len(mrec) - 1) |-> k],
                          LAMBDA k : mrec[k + 1] # mrec[k])
    IN  FSum([k \in 1..Len(i) |->
                FMul(FSub(mrec[i[k] + 1], mrec[i[k]]), mpre[i[k] + 1])])

\* the area under the precision envelope, summed where recall changes
ApExact(r, p) ==
    LET mrec == <<FZero>> \o r \o <<FOne>>
        mpre == Envelope(<<FZero>> \o p \o <<FZero>>)
        i    == SelectSeq([k \in 1..(Len(mrec) - 1) |-> k],
                          LAMBDA k : mrec[k + 1] # mrec[k])
    IN  FSum([k \in 1..Len(i) |->
                FMul(FSub(mrec[i[k] + 1], mrec[i[k]]), mpre[i[k] + 1])])

voc_ap(r, p, use07) ==
    IF use07 THEN Ap11Point(r, p, 0, FZero) ELSE ApExact(r, p)

NaN == [nan |-> TRUE, v |-> FZero]

\* np.mean: the sum over the count; nan for an empty list
NpMean(a) ==
    IF a = <<>> THEN NaN ELSE [nan |-> FALSE, v |-> FDivSmall(FSum(a), Len(a))]

\* the decision without the test of selec
MatchIgnoringSelec(gt_bb, gt_diff, sel, bb, thr) ==
    LET jmax == JMax(gt_bb, bb)
    IN  IF AboveMinIou(gt_bb, bb, thr)
        THEN IF ~gt_diff[jmax]
             THEN [tp |-> 1, fp |-> 0, claim |-> jmax]
             ELSE [tp |-> 0, fp |-> 0, claim |-> 0]
        ELSE [tp |-> 0, fp |-> 1, claim |-> 0]

\* the decision with a duplicate detection left uncounted
MatchDroppingDuplicates(gt_bb, gt_diff, sel, bb, thr) ==
    LET jmax == JMax(gt_bb, bb)
    IN  IF AboveMinIou(gt_bb, bb, thr)
        THEN IF ~gt_diff[jmax] /\ ~sel[jmax]
             THEN [tp |-> 1, fp |-> 0, claim |-> jmax]
             ELSE [tp |-> 0, fp |-> 0, claim |-> 0]
        ELSE [tp |-> 0, fp |-> 1, claim |-> 0]

\* the decision with a match of a difficult box counted as a false positive
MatchDifficultAsFp(gt_bb, gt_diff, sel, bb, thr) ==
    LET jmax == JMax(gt_bb, bb)
    IN  IF AboveMinIou(gt_bb, bb, thr)
        THEN IF ~gt_diff[jmax] /\ ~sel[jmax]
             THEN [tp |-> 1, fp |-> 0, claim |-> jmax]
             ELSE [tp |-> 0, fp |-> 1, claim |-> 0]
        ELSE [tp |-> 0, fp |-> 1, claim |-> 0]

\* the decision on one detection against the ground truth of its image:
\* its tp and fp indicators and the ground-truth box it claims (0: none)
Match(gt_bb, gt_diff, sel, bb, thr) ==
    LET jmax == JMax(gt_bb, bb)
    IN  IF AboveMinIou(gt_bb, bb, thr)
        THEN IF ~gt_diff[jmax]
             THEN IF ~sel[jmax]
                  THEN [tp |-> 1, fp |-> 0, claim |-> jmax]
                  ELSE [tp |-> 0, fp |-> 1, claim |-> 0]
             ELSE [tp |-> 0, fp |-> 0, claim |-> 0]
        ELSE [tp |-> 0, fp |-> 1, claim |-> 0]

\* npos: the non-difficult ground-truth boxes of the class, over all images
CountPos(gt_diff) ==
    SumSeq([i \in 1..Len(gt_diff) |->
        Cardinality({j \in 1..Len(gt_diff[i]) : ~gt_diff[i][j]})])

\* index: the image of each entry of the concatenated arrays
ImageIndex(arrs) ==
    Concatenate([i \in 1..Len(arrs) |-> [j \in 1..Len(arrs[i]) |-> i]])

\* the check with the ground-truth lists left out
SameLengthOfPredictions(a, b, c, e, f) == Len(a) = Len(b) /\ Len(b) = Len(c)

SameLength(a, b, c, e, f) ==
    Len(a) = Len(b) /\ Len(b) = Len(c) /\ Len(c) = Len(e) /\ Len(e) = Len(f)

LengthError == "ValueError: Length of list inputs need to be same"
ConcatError == "ValueError: need at least one array to concatenate"

(***************************************************************************)
(* The arguments of one call                                               *)
(***************************************************************************)
Fresh ==
    /\ pc = "validate" /\ raised = "" /\ valid_label = <<>>
    /\ bboxes_list = <<>> /\ scores_list = <<>>
    /\ gt_bboxes_list = <<>> /\ gt_difficults_list = <<>>
    /\ cls = 0 /\ npos = 0 /\ selec = <<>> /\ index = <<>> /\ conf = <<>>
    /\ bbox = <<>> /\ si = <<>> /\ d = 0 /\ tp = <<>> /\ fp = <<>>
    /\ rec = <<>> /\ prec = <<>> /\ results = <<>> /\ map = NaN

\* a corpus of N images whose arrays are parallel within each image
Corpus(Ns, dboxes, gboxes, labs, scs, diffs, given) ==
    \E N \in Ns : \E dc \in Counts(N, MaxDet), gc \in Counts(N, MaxGt) :
    \E db \in [1..SumSeq(dc) -> dboxes], dl \in [1..SumSeq(dc) -> labs],
       ds \in [1..SumSeq(dc) -> scs] :
    \E gb \in [1..SumSeq(gc) -> gboxes], gl \in [1..SumSeq(gc) -> labs],
       gd \in [1..SumSeq(gc) -> diffs] :
        /\ bboxes = Chunks(db, dc)
        /\ labels = Chunks(dl, dc)
        /\ scores = Chunks(ds, dc)
        /\ gt_bboxes = Chunks(gb, gc)
        /\ gt_labels = Chunks(gl, gc)
        /\ gt_difficults =
              IF given THEN [given |-> TRUE, v |-> Chunks(gd, gc)]
              ELSE NoDifficults

\* one class, every box, score and difficulty flag
InitMatch ==
    Corpus(1..MaxImg, DetBoxes, GtBoxes, {0}, Scores, BOOLEAN, TRUE)

\* several classes, gt_difficults omitted, possibly no image at all
InitLabels ==
    Corpus(0..MaxImg, {BoxA}, {BoxA}, Labels, {1}, {FALSE}, FALSE)

\* the five lists of any lengths
InitLengths ==
    \E n \in [1..5 -> 0..MaxImg] :
        /\ bboxes = [i \in 1..n[1] |-> <<BoxA>>]
        /\ labels = [i \in 1..n[2] |-> <<0>>]
        /\ scores = [i \in 1..n[3] |-> <<1>>]
        /\ gt_bboxes = [i \in 1..n[4] |-> <<BoxA>>]
        /\ gt_labels = [i \in 1..n[5] |-> <<0>>]
        /\ gt_difficults = NoDifficults

Init ==
    /\ InitMatch \/ InitLabels \/ InitLengths
    /\ use_07_metric \in BOOLEAN
    /\ Fresh

(***************************************************************************)
(* eval_detection_voc, stage by stage                                      *)
(***************************************************************************)
\* the check of the list lengths
Validate ==
    /\ pc = "validate"
    /\ IF SameLength(bboxes, labels, scores, gt_bboxes, gt_labels)
       THEN pc' = "labels" /\ raised' = raised
       ELSE pc' = "raised" /\ raised' = LengthError
    /\ UNCHANGED <<inputs, valid_label, lists, cls, scan, rec, prec,
                   results, map>>

\* valid_label; np.concatenate of an empty list raises
ComputeValidLabel ==
    /\ pc = "labels"
    /\ IF Len(labels) = 0 \/ Len(gt_labels) = 0
       THEN pc' = "raised" /\ raised' = ConcatError
            /\ valid_label' = valid_label
       ELSE pc' = "organize" /\ raised' = raised
            /\ valid_label' = Union1d(labels, gt_labels)
    /\ UNCHANGED <<inputs, lists, cls, scan, rec, prec, results, map>>

\* predictions and ground truths by label
Organize ==
    /\ pc = "organize"
    /\ bboxes_list' = OrganizeByLabel(bboxes, labels, valid_label)
    /\ scores_list' = OrganizeByLabel(scores, labels, valid_label)
    /\ gt_bboxes_list' = OrganizeByLabel(gt_bboxes, gt_labels, valid_label)
    /\ gt_difficults_list' =
          OrganizeByLabel(
              [n \in 1..Len(gt_bboxes) |->
                  DifficultsOf(gt_difficults, gt_bboxes, n)],
              gt_labels, valid_label)
    /\ cls' = 1
    /\ pc' = "classes"
    /\ UNCHANGED <<inputs, raised, valid_label, scan, rec, prec, results, map>>

\* the label the loop over valid_label is at
Label == valid_label[cls]

\* _pred_and_rec_cls up to the scan: npos, selec, the flat arrays, the
\* early return of a degenerate class, the reordering by score
StartClass ==
    /\ pc = "classes" /\ cls <= Len(valid_label)
    /\ npos' = CountPos(gt_difficults_list[Label])
    /\ selec' = [i \in 1..Len(gt_bboxes_list[Label]) |->
                    [j \in 1..Len(gt_bboxes_list[Label][i]) |-> FALSE]]
    /\ conf' = Concatenate(scores_list[Label])
    /\ IF npos' = 0 \/ Len(conf') = 0
       THEN /\ rec' = [i \in 1..Len(conf') |-> FZero]
            /\ prec' = [i \in 1..Len(conf') |-> FZero]
            /\ index' = ImageIndex(scores_list[Label])
            /\ bbox' = Concatenate(bboxes_list[Label])
            /\ si' = <<>> /\ tp' = <<>> /\ fp' = <<>> /\ d' = 0
            /\ pc' = "ap"
       ELSE /\ \E p \in Argsort([i \in 1..Len(conf') |-> 0 - conf'[i]]) :
                /\ si' = p
                /\ index' = Take(ImageIndex(scores_list[Label]), p)
                /\ bbox' = Take(Concatenate(bboxes_list[Label]), p)
            /\ tp' = [i \in 1..Len(conf') |-> 0]
            /\ fp' = [i \in 1..Len(conf') |-> 0]
            /\ d' = 1
            /\ rec' = <<>> /\ prec' = <<>>
            /\ pc' = "scan"
    /\ UNCHANGED <<inputs, raised, valid_label, lists, cls, results, map>>

\* one pass of the loop over the detections, in sorted order
ScanStep ==
    /\ pc = "scan" /\ d <= Len(index)
    /\ LET idx == index[d]
           m   == Match(gt_bboxes_list[Label][idx],
                        gt_difficults_list[Label][idx],
                        selec[idx], bbox[d], min_iou)
       IN  /\ tp' = [tp EXCEPT ![d] = m.tp]
           /\ fp' = [fp EXCEPT ![d] = m.fp]
           /\ selec' = IF m.claim = 0 THEN selec
                       ELSE [selec EXCEPT ![idx][m.claim] = TRUE]
    /\ d' = d + 1
    /\ UNCHANGED <<inputs, pc, raised, valid_label, lists, cls, npos, index,
                   conf, bbox, si, rec, prec, results, map>>

\* the cumulative sums, recall and precision
FinishScan ==
    /\ pc = "scan" /\ d > Len(index)
    /\ fp' = Cumsum(fp)
    /\ tp' = Cumsum(tp)
    /\ rec' = RecOf(tp', npos)
    /\ prec' = PrecOf(tp', fp')
    /\ pc' = "ap"
    /\ UNCHANGED <<inputs, raised, valid_label, lists, cls, npos, selec,
                   index, conf, bbox, si, d, results, map>>

\* ap of the class and its entry of the result
VocAp ==
    /\ pc = "ap"
    /\ results' = results @@
          (Label :> [recall |-> rec, precision |-> prec,
                     ap |-> voc_ap(rec, prec, use_07_metric)])
    /\ cls' = cls + 1
    /\ pc' = "classes"
    /\ UNCHANGED <<inputs, raised, valid_label, lists, scan, rec, prec, map>>

\* results['map'] and the return
ComputeMap ==
    /\ pc = "classes" /\ cls > Len(valid_label)
    /\ map' = NpMean([i \in 1..Len(valid_label) |-> results[valid_label[i]].ap])
    /\ pc' = "done"
    /\ UNCHANGED <<inputs, raised, valid_label, lists, cls, scan, rec, prec,
                   results>>

Next ==
    \/ Validate
    \/ ComputeValidLabel
    \/ Organize
    \/ StartClass
    \/ ScanStep
    \/ FinishScan
    \/ VocAp
    \/ ComputeMap

Spec == Init /\ [][Next]_vars

\* the calls that exercise the orchestration: list lengths and label sets
InitOrchestration ==
    /\ InitLabels \/ InitLengths
    /\ use_07_metric \in BOOLEAN
    /\ Fresh

SpecOrchestration == InitOrchestration /\ [][Next]_vars

(***************************************************************************)
(* Properties                                                              *)
(***************************************************************************)
\* the five lists have one length
Aligned ==
    \A a, b \in {Len(bboxes), Len(labels), Len(scores), Len(gt_bboxes),
                 Len(gt_labels)} : a = b

Untouched ==
    /\ valid_label = <<>> /\ bboxes_list = <<>> /\ scores_list = <<>>
    /\ gt_bboxes_list = <<>> /\ gt_difficults_list = <<>>
    /\ cls = 0 /\ results = <<>> /\ map = NaN

\* C1: when the five top-level lists do not all have the same length, the
\* call raises the length error straight from the check: it never reaches
\* the label set or a class, and no part of a result exists.
LengthMismatchRaisesFirst ==
    ~Aligned =>
        /\ pc \in {"validate", "raised"}
        /\ pc = "raised" => raised = LengthError
        /\ Untouched

LengthMismatchRaised == ~Aligned /\ pc = "raised" /\ raised = LengthError

\* C2: a call whose five lists have equal length never raises.
EqualLengthsNeverRaise == Aligned => pc # "raised"

\* the labels of the arguments, read off the arguments themselves
ArgLabels(arrs) ==
    UNION {{arrs[n][r] : r \in 1..Len(arrs[n])} : n \in 1..Len(arrs)}

ApsInLabelOrder ==
    LET ls == SortedSeq(DOMAIN results)
    IN  [i \in 1..Len(ls) |-> results[ls[i]].ap]

\* C3: in a returned result, the scored labels are exactly the labels that
\* occur in some prediction or ground-truth label array, and 'map' is the
\* mean of their 'ap' values (the sum over the count, nan when no label
\* is scored).
MapIsMeanOverLabelUnion ==
    pc = "done" =>
        /\ DOMAIN results = ArgLabels(labels) \cup ArgLabels(gt_labels)
        /\ IF DOMAIN results = {} THEN map.nan
           ELSE /\ ~map.nan
                /\ map.v = FDivSmall(FSum(ApsInLabelOrder),
                                     Cardinality(DOMAIN results))

\* a result with a label that only predictions carry and a label that
\* both carry, of unequal ap values
MapOverMixedLabels ==
    /\ pc = "done"
    /\ \E l, k \in DOMAIN results :
          /\ l \in ArgLabels(labels) /\ l \notin ArgLabels(gt_labels)
          /\ k \in ArgLabels(labels) /\ k \in ArgLabels(gt_labels)
          /\ results[l].ap # results[k].ap

\* the ground truth a detection of the scan is matched against, and what
\* the matching of rank r should find, read off the arrays of the class
Processed == 1..(d - 1)
GtBoxesAt(r) == gt_bboxes_list[Label][index[r]]
GtDifficultAt(r) == gt_difficults_list[Label][index[r]]
HasGt(r) == Len(GtBoxesAt(r)) > 0
IouMaxAt(r) == NpMax(IouSeq(GtBoxesAt(r), bbox[r]))
Above(r) == HasGt(r) /\ FCmp(IouMaxAt(r), min_iou) > 0
TargetAt(r) == <<index[r], NpArgmax(IouSeq(GtBoxesAt(r), bbox[r]))>>
HitsPositive(r) == Above(r) /\ ~GtDifficultAt(r)[TargetAt(r)[2]]
HitsDifficult(r) == Above(r) /\ GtDifficultAt(r)[TargetAt(r)[2]]
Claimed ==
    {ij \in (1..Len(selec)) \X (1..MaxCount) :
        ij[2] <= Len(selec[ij[1]]) /\ selec[ij[1]][ij[2]]}

\* whether ground-truth box r of image n is difficult, in the arguments
ArgDifficult(n, r) == gt_difficults.given /\ gt_difficults.v[n][r]

\* the non-difficult ground-truth boxes and the detections of label l, in
\* the arguments
ArgNpos(l) ==
    Cardinality({nr \in (1..Len(gt_labels)) \X (1..MaxCount) :
        /\ nr[2] <= Len(gt_labels[nr[1]])
        /\ gt_labels[nr[1]][nr[2]] = l
        /\ ~ArgDifficult(nr[1], nr[2])})
ArgDetections(l) ==
    Cardinality({nr \in (1..Len(labels)) \X (1..MaxCount) :
        nr[2] <= Len(labels[nr[1]]) /\ labels[nr[1]][nr[2]] = l})

\* C4: at every point of a class's scan the true positives number at most
\* npos, the non-difficult ground-truth boxes of the class; each true
\* positive holds its own claimed, non-difficult box of its own image; and
\* no recall value exceeds 1.
TruePositivesWithinNpos ==
    /\ pc = "scan" =>
          /\ npos = ArgNpos(Label)
          /\ SumSeq(tp) <= npos
          /\ Cardinality(Claimed) = SumSeq(tp)
          /\ \A r \in Processed :
                tp[r] = 1 => HitsPositive(r) /\ TargetAt(r) \in Claimed
          /\ \A r1, r2 \in Processed :
                tp[r1] = 1 /\ tp[r2] = 1 /\ r1 # r2 => TargetAt(r1) # TargetAt(r2)
    /\ pc = "ap" =>
          /\ \A i \in 1..Len(tp) : tp[i] <= npos
          /\ \A i \in 1..Len(rec) : FLeq(rec[i], FOne)
    /\ \A l \in DOMAIN results : \A i \in 1..Len(results[l].recall) :
          FLeq(results[l].recall[i], FOne)

\* a finished scan that found every positive and rejected a detection
AllPositivesFoundAndOneRejected ==
    /\ pc = "scan" /\ d > Len(index)
    /\ SumSeq(tp) = npos /\ SumSeq(fp) >= 1

\* C5: of the detections whose maximum-IoU box, above min_iou, is one and
\* the same non-difficult ground-truth box, the first in the scan is a true
\* positive and every later one a false positive.
FirstOfDuplicatesWins ==
    pc = "scan" =>
        \A b \in Processed : HitsPositive(b) =>
            IF \E a \in 1..(b - 1) :
                  HitsPositive(a) /\ TargetAt(a) = TargetAt(b)
            THEN tp[b] = 0 /\ fp[b] = 1
            ELSE tp[b] = 1 /\ fp[b] = 0

DuplicateProcessed ==
    /\ pc = "scan"
    /\ \E a, b \in Processed :
          a < b /\ HitsPositive(a) /\ HitsPositive(b) /\ TargetAt(a) = TargetAt(b)

\* C6: a detection whose maximum-IoU box, above min_iou, is difficult is
\* neither a true nor a false positive, and claims nothing: the claimed
\* boxes are the targets of the detections that hit a non-difficult box,
\* so no difficult box is ever claimed.
DifficultMatchesCountNothing ==
    pc = "scan" =>
        /\ \A r \in Processed : HitsDifficult(r) => tp[r] = 0 /\ fp[r] = 0
        /\ Claimed = {TargetAt(r) : r \in {q \in Processed : HitsPositive(q)}}
        /\ \A ij \in Claimed :
              ~gt_difficults_list[Label][ij[1]][ij[2]]

TwoHitsOnOneDifficultBox ==
    /\ pc = "scan"
    /\ \E a, b \in Processed :
          a < b /\ HitsDifficult(a) /\ HitsDifficult(b) /\ TargetAt(a) = TargetAt(b)

\* C7: a class without non-difficult ground truth has all-zero recall and
\* precision, one entry per detection of the class, and ap 0; a class
\* without detections has empty recall and precision and ap 0; under
\* either integration.
DegenerateClassIsZero ==
    \A l \in DOMAIN results :
        /\ ArgNpos(l) = 0 =>
              /\ results[l].recall = [i \in 1..ArgDetections(l) |-> FZero]
              /\ results[l].precision = [i \in 1..ArgDetections(l) |-> FZero]
              /\ results[l].ap = FZero
        /\ ArgDetections(l) = 0 =>
              /\ results[l].recall = <<>>
              /\ results[l].precision = <<>>
              /\ results[l].ap = FZero

BothDegenerateClassesScored ==
    /\ \E l \in DOMAIN results : ArgNpos(l) = 0 /\ ArgDetections(l) > 0
    /\ \E l \in DOMAIN results : ArgDetections(l) = 0 /\ ArgNpos(l) > 0

\* C8: every ap of a result lies in [0, 1], under either integration.
ApWithinUnitInterval ==
    \A l \in DOMAIN results :
        FLeq(FZero, results[l].ap) /\ FLeq(results[l].ap, FOne)

\* C9: a true positive has a box of its class in its image with maximum
\* IoU strictly above min_iou, not difficult; a detection whose maximum IoU
\* is min_iou or less, or whose image has no box of the class, is a false
\* positive; and only detections above min_iou claim a box.
IouTestIsStrict ==
    pc = "scan" =>
        /\ \A r \in Processed :
              /\ tp[r] = 1 => HitsPositive(r)
              /\ ~HasGt(r) \/ FCmp(IouMaxAt(r), min_iou) <= 0 =>
                    tp[r] = 0 /\ fp[r] = 1
        /\ Claimed \subseteq {TargetAt(r) : r \in {q \in Processed : Above(q)}}

\* a detection at exactly min_iou and one in an image without ground truth
AtThresholdAndWithoutGroundTruth ==
    /\ pc = "scan"
    /\ \E r \in Processed : HasGt(r) /\ IouMaxAt(r) = min_iou /\ fp[r] = 1
    /\ \E r \in Processed : ~HasGt(r) /\ fp[r] = 1

\* C10: the detections of a class are scanned in descending order of
\* score over all images, equal scores in their original order.
ScanOrderIsStableDescending ==
    pc = "scan" =>
        \A a, b \in 1..Len(si) : a < b =>
            /\ conf[si[a]] >= conf[si[b]]
            /\ conf[si[a]] = conf[si[b]] => si[a] < si[b]
====
